---- MODULE Spec2Model ----
(***************************************************************************)
(* A model of Duck (src/Duck.mjs), a small git-like version control CLI.   *)
(*                                                                         *)
(* The state is the on-disk repository (.duck/objects, .duck/HEAD,         *)
(* .duck/index) and, per CLI invocation, the position of the two async     *)
(* call chains the invocation starts: the init() chain the constructor     *)
(* starts without awaiting it, and the chain of the invoked command.       *)
(* Every awaited fs call is one atomic step.                               *)
(*                                                                         *)
(* Strings (file texts, JSON texts, digests) are sequences of integers.    *)
(* The JS value null is the one-element sequence << -1 >>, which is no     *)
(* string because every character of a string is >= 0.                     *)
(***************************************************************************)
EXTENDS Integers, Sequences, FiniteSets

\* ------------------------------------------------------------------ bounds
\* an add is started only while fewer entries than this have been staged
MaxAdds == 3
\* a commit is started only while fewer records than this have been stored
MaxCommits == 2
\* with interruptions or a second process, an invocation is started only
\* while fewer adds and commits than this have written
MaxOps == 3

\* paths given to `add`, texts a working file may hold, commit messages and
\* the values of the wall clock
Paths == {1, 2}
Contents == {1, 2}
Messages == {1}
Times == {1}

\* the invocations (processes); Spec runs one at a time
Procs == {1, 2}
Writers == {1}

\* ------------------------------------------------------------ JS values
Null == << -1 >>
EmptyString == << >>

\* Truthy that takes every value for true
Truthy_Always(v) == TRUE

\* JS truthiness of a string-or-null value (while(currentCommitHash), if(commitData.parent))
Truthy(v) == v # Null /\ v # EmptyString

\* the text of a working file holding content c
FileText(c) == << c >>

\* crypto sha1 hex digest: modelled as collision-free, a non-empty string
\* that is determined by the content and determines it
hashObject(content) == << 40 >> \o content

\* a digest under which nothing is ever stored
UnknownHash == hashObject(<< 0 >>)

\* --------------------------------------------------------------- JSON
RECURSIVE StringifyEntries(_)
StringifyEntries(files) ==
    IF files = << >> THEN << >>
    ELSE << Head(files).path, Len(Head(files).hash) >> \o Head(files).hash
         \o StringifyEntries(Tail(files))

\* JSON.stringify of an array of {path, hash}: '[' count entries ']'
StringifyFiles(files) == << 91, Len(files) >> \o StringifyEntries(files) \o << 93 >>

\* JSON.stringify of a string-or-null field
StringifyParent(parent) ==
    IF parent = Null THEN << 0 >> ELSE << 1, Len(parent) >> \o parent

\* JSON.stringify(commitData): '{' timeStamp message files parent '}'
StringifyCommit(timeStamp, message, files, parent) ==
    << 123, timeStamp, message >> \o StringifyFiles(files)
    \o StringifyParent(parent) \o << 125 >>

RECURSIVE ParseEntries(_, _, _)
ParseEntries(s, i, n) ==
    IF n = 0 THEN [ok |-> TRUE, files |-> << >>, next |-> i]
    ELSE IF i + 1 > Len(s) THEN [ok |-> FALSE, files |-> << >>, next |-> i]
    ELSE IF s[i + 1] < 0 \/ i + 1 + s[i + 1] > Len(s)
         THEN [ok |-> FALSE, files |-> << >>, next |-> i]
    ELSE LET e == [path |-> s[i], hash |-> SubSeq(s, i + 2, i + 1 + s[i + 1])]
             r == ParseEntries(s, i + 2 + s[i + 1], n - 1)
         IN  [ok |-> r.ok, files |-> << e >> \o r.files, next |-> r.next]

\* parse an array of {path, hash} starting at position i of s
ParseFiles(s, i) ==
    IF i + 1 > Len(s) THEN [ok |-> FALSE, files |-> << >>, next |-> i]
    ELSE IF s[i] # 91 \/ s[i + 1] < 0 THEN [ok |-> FALSE, files |-> << >>, next |-> i]
    ELSE LET r == ParseEntries(s, i + 2, s[i + 1])
         IN  IF r.ok /\ r.next <= Len(s) /\ s[r.next] = 93
             THEN [ok |-> TRUE, files |-> r.files, next |-> r.next + 1]
             ELSE [ok |-> FALSE, files |-> << >>, next |-> i]

\* parse a string-or-null field starting at position i of s
ParseParent(s, i) ==
    IF i > Len(s) THEN [ok |-> FALSE, parent |-> Null, next |-> i]
    ELSE IF s[i] = 0 THEN [ok |-> TRUE, parent |-> Null, next |-> i + 1]
    ELSE IF s[i] = 1 /\ i + 1 <= Len(s) /\ s[i + 1] >= 0 /\ i + 1 + s[i + 1] <= Len(s)
         THEN [ok |-> TRUE, parent |-> SubSeq(s, i + 2, i + 1 + s[i + 1]),
               next |-> i + 2 + s[i + 1]]
    ELSE [ok |-> FALSE, parent |-> Null, next |-> i]

NoCommit(kind) ==
    [kind |-> kind, timeStamp |-> 0, message |-> 0, files |-> << >>, parent |-> Null]

\* JSON.parse of the index file: kind "array" or "SyntaxError"
ParseIndex(s) ==
    LET r == ParseFiles(s, 1)
    IN  IF r.ok /\ r.next = Len(s) + 1
        THEN [kind |-> "array", files |-> r.files]
        ELSE [kind |-> "SyntaxError", files |-> << >>]

\* ParseCommit in which JSON.parse(null) throws like any other non-JSON input
ParseCommit_NullThrows(s) ==
    IF s = Null THEN NoCommit("SyntaxError")
    ELSE IF Len(s) < 4 \/ s[1] # 123 THEN NoCommit("SyntaxError")
    ELSE LET f == ParseFiles(s, 4)
             q == ParseParent(s, f.next)
         IN  IF f.ok /\ q.ok /\ q.next = Len(s) /\ s[q.next] = 125
             THEN [kind |-> "object", timeStamp |-> s[2], message |-> s[3],
                   files |-> f.files, parent |-> q.parent]
             ELSE NoCommit("SyntaxError")

\* JSON.parse of what getCommitData returned: JSON.parse(null) is null, a
\* commit text is its record, anything else throws a SyntaxError
ParseCommit(s) ==
    IF s = Null THEN NoCommit("null")
    ELSE IF Len(s) < 4 \/ s[1] # 123 THEN NoCommit("SyntaxError")
    ELSE LET f == ParseFiles(s, 4)
             q == ParseParent(s, f.next)
         IN  IF f.ok /\ q.ok /\ q.next = Len(s) /\ s[q.next] = 125
             THEN [kind |-> "object", timeStamp |-> s[2], message |-> s[3],
                   files |-> f.files, parent |-> q.parent]
             ELSE NoCommit("SyntaxError")

\* ---------------------------------------------------------------- state
VARIABLES
    objectsDir,   \* .duck/objects exists
    head,         \* .duck/HEAD: [exists, data]
    index,        \* .duck/index: [exists, data], data a JSON text
    objects,      \* .duck/objects/<hash>: hash -> text
    cmd,          \* the command of the invocation of each process
    ipc,          \* position of the init() chain started by the constructor
    pc,           \* position of the command's chain
    loc,          \* the command's local variables
    out,          \* the lines the invocation has printed
    pre,          \* the repository as the invocation found it
    history,      \* hashes of the commits that ran to completion, oldest first
    staged,       \* the entries staged by the adds that ran to completion
    headWriter,   \* the process whose commit wrote HEAD last, 0 when none has
    nadd,         \* entries staged so far
    ncommit       \* commit records stored so far

vars == << objectsDir, head, index, objects, cmd, ipc, pc, loc, out, pre, history, staged,
          headWriter, nadd, ncommit >>
repo == << objectsDir, head, index, objects >>

\* the empty object store, and the store after fs.writeFile(objects/<hash>, text)
NoObjects == [h \in {} |-> EmptyString]
\* PutObject that empties the store before it writes
PutObject_Replace(store, hash, text) == [h \in {hash} |-> text]

PutObject(store, hash, text) ==
    [h \in DOMAIN store \cup {hash} |-> IF h = hash THEN text ELSE store[h]]

NoFile == [exists |-> FALSE, data |-> EmptyString]
File(data) == [exists |-> TRUE, data |-> data]

Repo == [objectsDir |-> objectsDir, head |-> head, index |-> index, objects |-> objects]

NoLocals ==
    [fileToBeAdded |-> 0, working |-> 0, message |-> 0, commitHash |-> EmptyString,
     fileData |-> EmptyString, fileHash |-> EmptyString, index |-> << >>,
     parentCommit |-> Null, commitData |-> EmptyString,
     currentCommitHash |-> Null, i |-> 0, error |-> "none"]

Line(text, a, b) == [line |-> text, a |-> a, b |-> b]

Init ==
    /\ objectsDir = FALSE
    /\ head = NoFile
    /\ index = NoFile
    /\ objects = NoObjects
    /\ cmd = [p \in Procs |-> "none"]
    /\ ipc = [p \in Procs |-> "done"]
    /\ pc = [p \in Procs |-> "done"]
    /\ loc = [p \in Procs |-> NoLocals]
    /\ out = [p \in Procs |-> << >>]
    /\ pre = [p \in Procs |-> [objectsDir |-> FALSE, head |-> NoFile, index |-> NoFile,
                               objects |-> NoObjects]]
    /\ history = << >>
    /\ staged = {}
    /\ headWriter = 0
    /\ nadd = 0
    /\ ncommit = 0

\* ------------------------------------------------ invocation and constructor
\* the process of p has ended: its command's chain has returned and the init
\* chain has finished, or an error escaped the command's chain (the rejected
\* promise of the action handler is unhandled and ends the process)
Finished(p) == pc[p] = "failed" \/ (pc[p] = "done" /\ ipc[p] = "done")

\* new Duck(): the constructor sets the paths and calls this.init() without
\* awaiting it; the command's chain starts at `first`
Construct(p, command, first, locals) ==
    /\ Finished(p)
    /\ cmd' = [cmd EXCEPT ![p] = command]
    /\ ipc' = [ipc EXCEPT ![p] = "mkdir"]
    /\ pc' = [pc EXCEPT ![p] = first]
    /\ loc' = [loc EXCEPT ![p] = locals]
    /\ out' = [out EXCEPT ![p] = << >>]
    /\ pre' = [pre EXCEPT ![p] = Repo]
    /\ UNCHANGED << repo, history, staged, headWriter >>

Throw(p, error) ==
    /\ pc' = [pc EXCEPT ![p] = "failed"]
    /\ loc' = [loc EXCEPT ![p].error = error]

ConsoleLog(p, lines) == out' = [out EXCEPT ![p] = out[p] \o lines]

\* ------------------------------------------------------------------- init
\* await fs.mkdir(this.objectsPath, {recursive: true})
InitMkdir(p) ==
    /\ ipc[p] = "mkdir" /\ pc[p] # "failed"
    /\ objectsDir' = TRUE
    /\ ipc' = [ipc EXCEPT ![p] = "head"]
    /\ UNCHANGED << head, index, objects, cmd, pc, loc, out, pre, history, staged, headWriter, nadd, ncommit >>

\* InitHead without the 'wx' flag: HEAD is written whether or not it exists
InitHead_Overwrite(p) ==
    /\ ipc[p] = "head" /\ pc[p] # "failed"
    /\ head' = File(EmptyString)
    /\ ipc' = [ipc EXCEPT ![p] = "index"]
    /\ UNCHANGED << objectsDir, index, objects, cmd, pc, loc, out, pre, history, staged, headWriter, nadd, ncommit >>

\* await fs.writeFile(this.headPath, '', {flag: 'wx'}), or the catch block
InitHead(p) ==
    /\ ipc[p] = "head" /\ pc[p] # "failed"
    /\ IF head.exists
       THEN /\ ConsoleLog(p, << Line("Already initialised the .duck folder", EmptyString, EmptyString) >>)
            /\ ipc' = [ipc EXCEPT ![p] = "done"]
            /\ UNCHANGED head
       ELSE /\ head' = File(EmptyString)
            /\ ipc' = [ipc EXCEPT ![p] = "index"]
            /\ UNCHANGED out
    /\ UNCHANGED << objectsDir, index, objects, cmd, pc, loc, pre, history, staged, headWriter, nadd, ncommit >>

\* await fs.writeFile(this.indexPath, JSON.stringify([]), {flag: 'wx'}), or the catch block
InitIndex(p) ==
    /\ ipc[p] = "index" /\ pc[p] # "failed"
    /\ IF index.exists
       THEN /\ ConsoleLog(p, << Line("Already initialised the .duck folder", EmptyString, EmptyString) >>)
            /\ UNCHANGED index
       ELSE /\ index' = File(StringifyFiles(<< >>))
            /\ UNCHANGED out
    /\ ipc' = [ipc EXCEPT ![p] = "done"]
    /\ UNCHANGED << objectsDir, head, objects, cmd, pc, loc, pre, history, staged, headWriter, nadd, ncommit >>

\* program.command('init'): only constructs the object
StartInit(p) ==
    /\ Construct(p, "init", "done", NoLocals)
    /\ UNCHANGED << nadd, ncommit >>

\* -------------------------------------------------------------------- add
\* program.command('add <file>'): new Duck(), then duck.add(file). `working` is
\* what the working tree holds at that path: a text, or 0 when the path
\* cannot be read
StartAdd(p) ==
    /\ nadd < MaxAdds
    /\ \E file \in Paths, working \in Contents \cup {0} :
         Construct(p, "add", "add_readFile",
                   [NoLocals EXCEPT !.fileToBeAdded = file, !.working = working])
    /\ UNCHANGED << nadd, ncommit >>

\* AddReadFile that swallows the rejected read and goes on with an empty text
AddReadFile_IgnoreError(p) ==
    /\ pc[p] = "add_readFile"
    /\ LET fileData == IF loc[p].working = 0 THEN EmptyString ELSE FileText(loc[p].working)
       IN  /\ loc' = [loc EXCEPT ![p].fileData = fileData,
                                 ![p].fileHash = hashObject(fileData)]
           /\ ConsoleLog(p, << Line("hash", hashObject(fileData), EmptyString) >>)
    /\ pc' = [pc EXCEPT ![p] = "add_writeObject"]
    /\ UNCHANGED << repo, cmd, ipc, pre, history, staged, headWriter, nadd, ncommit >>

\* const fileData = await fs.readFile(fileToBeAdded): the read is rejected and
\* the error escapes add, or it yields the text, which is hashed and the hash
\* printed
AddReadFile(p) ==
    /\ pc[p] = "add_readFile"
    /\ IF loc[p].working = 0
       THEN /\ Throw(p, "ENOENT")
            /\ UNCHANGED out
       ELSE /\ loc' = [loc EXCEPT ![p].fileData = FileText(loc[p].working),
                                  ![p].fileHash = hashObject(FileText(loc[p].working))]
            /\ pc' = [pc EXCEPT ![p] = "add_writeObject"]
            /\ ConsoleLog(p, << Line("hash", hashObject(FileText(loc[p].working)),
                                     EmptyString) >>)
    /\ UNCHANGED << repo, cmd, ipc, pre, history, staged, headWriter, nadd, ncommit >>

\* AddWriteObject that names the object after the path instead of the content
AddWriteObject_ByPath(p) ==
    /\ pc[p] = "add_writeObject"
    /\ IF objectsDir
       THEN /\ objects' = PutObject(objects, hashObject(<< loc[p].fileToBeAdded >>), loc[p].fileData)
            /\ pc' = [pc EXCEPT ![p] = "add_readIndex"]
            /\ UNCHANGED loc
       ELSE /\ Throw(p, "ENOENT")
            /\ UNCHANGED objects
    /\ UNCHANGED << objectsDir, head, index, cmd, ipc, out, pre, history, staged, headWriter, nadd, ncommit >>

\* AddWriteObject that goes on to the index without storing the blob
AddWriteObject_Skip(p) ==
    /\ pc[p] = "add_writeObject"
    /\ IF objectsDir
       THEN /\ pc' = [pc EXCEPT ![p] = "add_readIndex"]
            /\ UNCHANGED loc
       ELSE Throw(p, "ENOENT")
    /\ UNCHANGED << repo, cmd, ipc, out, pre, history, staged, headWriter, nadd, ncommit >>

\* await fs.writeFile(newFileHashedObjectPath, fileData)
AddWriteObject(p) ==
    /\ pc[p] = "add_writeObject"
    /\ IF objectsDir
       THEN /\ objects' = PutObject(objects, loc[p].fileHash, loc[p].fileData)
            /\ pc' = [pc EXCEPT ![p] = "add_readIndex"]
            /\ UNCHANGED loc
       ELSE /\ Throw(p, "ENOENT")
            /\ UNCHANGED objects
    /\ UNCHANGED << objectsDir, head, index, cmd, ipc, out, pre, history, staged, headWriter, nadd, ncommit >>

\* AddReadIndex that replaces the entries already staged for the same path
AddReadIndex_Dedupe(p) ==
    /\ pc[p] = "add_readIndex"
    /\ IF ~index.exists THEN Throw(p, "ENOENT")
       ELSE IF ParseIndex(index.data).kind # "array" THEN Throw(p, "SyntaxError")
       ELSE /\ loc' = [loc EXCEPT ![p].index =
                          Append(SelectSeq(ParseIndex(index.data).files,
                                           LAMBDA e : e.path # loc[p].fileToBeAdded),
                                 [path |-> loc[p].fileToBeAdded, hash |-> loc[p].fileHash])]
            /\ pc' = [pc EXCEPT ![p] = "add_writeIndex"]
    /\ UNCHANGED << repo, cmd, ipc, out, pre, history, staged, headWriter, nadd, ncommit >>

\* updateStagingArea: const index = JSON.parse(await fs.readFile(this.indexPath));
\* index.push({ path: filePath, hash: fileHash })
AddReadIndex(p) ==
    /\ pc[p] = "add_readIndex"
    /\ IF ~index.exists THEN Throw(p, "ENOENT")
       ELSE IF ParseIndex(index.data).kind # "array" THEN Throw(p, "SyntaxError")
       ELSE /\ loc' = [loc EXCEPT ![p].index =
                          Append(ParseIndex(index.data).files,
                                 [path |-> loc[p].fileToBeAdded, hash |-> loc[p].fileHash])]
            /\ pc' = [pc EXCEPT ![p] = "add_writeIndex"]
    /\ UNCHANGED << repo, cmd, ipc, out, pre, history, staged, headWriter, nadd, ncommit >>

\* AddWriteIndex that also rewrites HEAD as empty
AddWriteIndex_ResetsHead(p) ==
    /\ pc[p] = "add_writeIndex"
    /\ index' = File(StringifyFiles(loc[p].index))
    /\ head' = File(EmptyString)
    /\ pc' = [pc EXCEPT ![p] = "done"]
    /\ ConsoleLog(p, << Line("Added", << loc[p].fileToBeAdded >>, EmptyString) >>)
    /\ nadd' = nadd + 1
    /\ staged' = staged \cup {[path |-> loc[p].fileToBeAdded, hash |-> loc[p].fileHash]}
    /\ UNCHANGED << objectsDir, objects, cmd, ipc, loc, pre, history, headWriter, ncommit >>

\* AddWriteIndex that appends to the index as it is at the time of the write
AddWriteIndex_Atomic(p) ==
    /\ pc[p] = "add_writeIndex"
    /\ index' = File(StringifyFiles(Append(ParseIndex(index.data).files,
                                           [path |-> loc[p].fileToBeAdded,
                                            hash |-> loc[p].fileHash])))
    /\ pc' = [pc EXCEPT ![p] = "done"]
    /\ ConsoleLog(p, << Line("Added", << loc[p].fileToBeAdded >>, EmptyString) >>)
    /\ nadd' = nadd + 1
    /\ staged' = staged \cup {[path |-> loc[p].fileToBeAdded, hash |-> loc[p].fileHash]}
    /\ UNCHANGED << objectsDir, head, objects, cmd, ipc, loc, pre, history, headWriter, ncommit >>

\* updateStagingArea: await fs.writeFile(this.indexPath, JSON.stringify(index));
\* back in add: console.log(`Added ${fileToBeAdded}`)
AddWriteIndex(p) ==
    /\ pc[p] = "add_writeIndex"
    /\ index' = File(StringifyFiles(loc[p].index))
    /\ pc' = [pc EXCEPT ![p] = "done"]
    /\ ConsoleLog(p, << Line("Added", << loc[p].fileToBeAdded >>, EmptyString) >>)
    /\ nadd' = nadd + 1
    /\ staged' = staged \cup {[path |-> loc[p].fileToBeAdded, hash |-> loc[p].fileHash]}
    /\ UNCHANGED << objectsDir, head, objects, cmd, ipc, loc, pre, history, headWriter, ncommit >>

\* ----------------------------------------------------------------- commit
\* try { return await fs.readFile(this.headPath) } catch { return null }
getCurrentHead == IF head.exists THEN head.data ELSE Null

\* program.command('commit <message>'): new Duck(), then duck.commit(message)
StartCommit(p) ==
    /\ ncommit < MaxCommits
    /\ \E message \in Messages :
         Construct(p, "commit", "commit_readIndex", [NoLocals EXCEPT !.message = message])
    /\ UNCHANGED << nadd, ncommit >>

\* CommitReadIndex that refuses an empty staging area
CommitReadIndex_RejectEmpty(p) ==
    /\ pc[p] = "commit_readIndex"
    /\ IF ~index.exists THEN Throw(p, "ENOENT")
       ELSE IF ParseIndex(index.data).kind # "array" THEN Throw(p, "SyntaxError")
       ELSE IF ParseIndex(index.data).files = << >> THEN Throw(p, "EmptyIndex")
       ELSE /\ loc' = [loc EXCEPT ![p].index = ParseIndex(index.data).files]
            /\ pc' = [pc EXCEPT ![p] = "commit_readHead"]
    /\ UNCHANGED << repo, cmd, ipc, out, pre, history, staged, headWriter, nadd, ncommit >>

\* const index = JSON.parse(await fs.readFile(this.indexPath))
CommitReadIndex(p) ==
    /\ pc[p] = "commit_readIndex"
    /\ IF ~index.exists THEN Throw(p, "ENOENT")
       ELSE IF ParseIndex(index.data).kind # "array" THEN Throw(p, "SyntaxError")
       ELSE /\ loc' = [loc EXCEPT ![p].index = ParseIndex(index.data).files]
            /\ pc' = [pc EXCEPT ![p] = "commit_readHead"]
    /\ UNCHANGED << repo, cmd, ipc, out, pre, history, staged, headWriter, nadd, ncommit >>

\* the commitData object literal of commit, serialized
CommitData(timeStamp, message, files, parentCommit) ==
    StringifyCommit(timeStamp, message, files, parentCommit)

\* const parentCommit = await this.getCurrentHead(); then commitData is built
\* with the clock's value and serialized, and commitHash is its hash
CommitReadHead(p) ==
    /\ pc[p] = "commit_readHead"
    /\ \E timeStamp \in Times :
         LET commitData == CommitData(timeStamp, loc[p].message, loc[p].index, getCurrentHead)
         IN  loc' = [loc EXCEPT ![p].parentCommit = getCurrentHead,
                                ![p].commitData = commitData,
                                ![p].commitHash = hashObject(commitData)]
    /\ pc' = [pc EXCEPT ![p] = "commit_writeObject"]
    /\ UNCHANGED << repo, cmd, ipc, out, pre, history, staged, headWriter, nadd, ncommit >>

\* CommitWriteObject that also clears the index, before HEAD is written
CommitWriteObject_ClearsIndex(p) ==
    /\ pc[p] = "commit_writeObject"
    /\ IF objectsDir
       THEN /\ objects' = PutObject(objects, loc[p].commitHash, loc[p].commitData)
            /\ index' = File(StringifyFiles(<< >>))
            /\ ncommit' = ncommit + 1
            /\ pc' = [pc EXCEPT ![p] = "commit_writeHead"]
            /\ UNCHANGED loc
       ELSE /\ Throw(p, "ENOENT")
            /\ UNCHANGED << objects, index, ncommit >>
    /\ UNCHANGED << objectsDir, head, cmd, ipc, out, pre, history, staged, headWriter, nadd >>

\* CommitWriteObject that writes HEAD in place of storing the record
CommitWriteObject_HeadFirst(p) ==
    /\ pc[p] = "commit_writeObject"
    /\ IF objectsDir
       THEN /\ head' = File(loc[p].commitHash)
            /\ ncommit' = ncommit + 1
            /\ pc' = [pc EXCEPT ![p] = "commit_writeHead"]
            /\ UNCHANGED loc
       ELSE /\ Throw(p, "ENOENT")
            /\ UNCHANGED << head, ncommit >>
    /\ UNCHANGED << objectsDir, index, objects, cmd, ipc, out, pre, history, staged, headWriter, nadd >>

\* await fs.writeFile(commitPath, JSON.stringify(commitData))
CommitWriteObject(p) ==
    /\ pc[p] = "commit_writeObject"
    /\ IF objectsDir
       THEN /\ objects' = PutObject(objects, loc[p].commitHash, loc[p].commitData)
            /\ ncommit' = ncommit + 1
            /\ pc' = [pc EXCEPT ![p] = "commit_writeHead"]
            /\ UNCHANGED loc
       ELSE /\ Throw(p, "ENOENT")
            /\ UNCHANGED << objects, ncommit >>
    /\ UNCHANGED << objectsDir, head, index, cmd, ipc, out, pre, history, staged, headWriter, nadd >>

\* CommitWriteHead that leaves HEAD alone when it changed since the commit read it
CommitWriteHead_IfUnchanged(p) ==
    /\ pc[p] = "commit_writeHead"
    /\ head' = IF getCurrentHead = loc[p].parentCommit THEN File(loc[p].commitHash) ELSE head
    /\ pc' = [pc EXCEPT ![p] = "commit_writeIndex"]
    /\ headWriter' = p
    /\ UNCHANGED << objectsDir, index, objects, cmd, ipc, loc, out, pre, history, staged, nadd,
                    ncommit >>

\* await fs.writeFile(this.headPath, commitHash)
CommitWriteHead(p) ==
    /\ pc[p] = "commit_writeHead"
    /\ head' = File(loc[p].commitHash)
    /\ pc' = [pc EXCEPT ![p] = "commit_writeIndex"]
    /\ headWriter' = p
    /\ UNCHANGED << objectsDir, index, objects, cmd, ipc, loc, out, pre, history, staged, nadd,
                    ncommit >>

\* CommitWriteIndex without the write that clears the staging area
CommitWriteIndex_NoClear(p) ==
    /\ pc[p] = "commit_writeIndex"
    /\ pc' = [pc EXCEPT ![p] = "done"]
    /\ ConsoleLog(p, << Line("Commit successfully created", loc[p].commitHash, EmptyString) >>)
    /\ history' = Append(history, loc[p].commitHash)
    /\ UNCHANGED << repo, cmd, ipc, loc, pre, staged, headWriter, nadd, ncommit >>

\* await fs.writeFile(this.indexPath, JSON.stringify([])); then the success line
CommitWriteIndex(p) ==
    /\ pc[p] = "commit_writeIndex"
    /\ index' = File(StringifyFiles(<< >>))
    /\ pc' = [pc EXCEPT ![p] = "done"]
    /\ ConsoleLog(p, << Line("Commit successfully created", loc[p].commitHash, EmptyString) >>)
    /\ history' = Append(history, loc[p].commitHash)
    /\ UNCHANGED << objectsDir, head, objects, cmd, ipc, loc, pre, staged, headWriter, nadd,
                    ncommit >>

\* -------------------------------------------------------------------- log
\* program.command('log'): new Duck(), then duck.log()
StartLog(p) ==
    /\ Construct(p, "log", "log_readHead", NoLocals)
    /\ UNCHANGED << nadd, ncommit >>

\* let currentCommitHash = await this.getCurrentHead(), and the first test of
\* the while condition
LogReadHead(p) ==
    /\ pc[p] = "log_readHead"
    /\ loc' = [loc EXCEPT ![p].currentCommitHash = getCurrentHead]
    /\ pc' = [pc EXCEPT ![p] = IF Truthy(getCurrentHead) THEN "log_readCommit" ELSE "done"]
    /\ UNCHANGED << repo, cmd, ipc, out, pre, history, staged, headWriter, nadd, ncommit >>

\* LogNextHash that never moves to the parent
LogNextHash_Stop(commitData) == Null

\* currentCommitHash = commitData.parent
LogNextHash(commitData) == commitData.parent

\* one turn of the loop: read and parse the object of currentCommitHash, print
\* it, move to its parent and test the while condition again
LogReadCommit(p) ==
    /\ pc[p] = "log_readCommit"
    /\ LET currentCommitHash == loc[p].currentCommitHash
       IN  IF currentCommitHash \notin DOMAIN objects
           THEN Throw(p, "ENOENT") /\ UNCHANGED out
           ELSE LET commitData == ParseCommit(objects[currentCommitHash])
                IN  IF commitData.kind # "object"
                    THEN Throw(p, "SyntaxError") /\ UNCHANGED out
                    ELSE /\ ConsoleLog(p, << Line("Commit", currentCommitHash,
                                  << commitData.timeStamp, commitData.message >>) >>)
                         /\ loc' = [loc EXCEPT ![p].currentCommitHash = LogNextHash(commitData)]
                         /\ pc' = [pc EXCEPT ![p] =
                                IF Truthy(LogNextHash(commitData)) THEN "log_readCommit" ELSE "done"]
    /\ UNCHANGED << repo, cmd, ipc, pre, history, staged, headWriter, nadd, ncommit >>

\* ------------------------------------------------------------------- show
\* values that are no string: undefined, and the mark of a rejected read
Undefined == << -2 >>
Enoent == << -3 >>

\* try { return await fs.readFile(commitPath) } catch { console.log(...); return null }
getCommitData(commitHash) ==
    IF commitHash \in DOMAIN objects THEN objects[commitHash] ELSE Null

\* return fs.readFile(objectPath): rejects when there is no such object
getFileContent(fileHash) ==
    IF fileHash \in DOMAIN objects THEN objects[fileHash] ELSE Enoent

\* FindFile that takes the last match (findLast) instead of the first
FindFile_Last(files, filePath) ==
    IF \E k \in 1..Len(files) : files[k].path = filePath
    THEN CHOOSE k \in 1..Len(files) :
            /\ files[k].path = filePath
            /\ \A j \in (k + 1)..Len(files) : files[j].path # filePath
    ELSE 0

\* Array.prototype.find(file => file.path === filePath): the position of the
\* first match, 0 when there is none
FindFile(files, filePath) ==
    IF \E k \in 1..Len(files) : files[k].path = filePath
    THEN CHOOSE k \in 1..Len(files) :
            /\ files[k].path = filePath
            /\ \A j \in 1..(k - 1) : files[j].path # filePath
    ELSE 0

\* the content of the parent's file of that path, undefined when it has none
getParentFileContent(parentCommitData, filePath) ==
    LET parentFile == FindFile(parentCommitData.files, filePath)
    IN  IF parentFile # 0
        THEN getFileContent(parentCommitData.files[parentFile].hash)
        ELSE Undefined

\* the lines getCommitData prints
CommitDataLog(commitHash) ==
    IF getCommitData(commitHash) = Null
    THEN << Line("Failed to read the commit data", commitHash, EmptyString) >>
    ELSE << >>

\* program.command('show <commitHash>'): new Duck(), then duck.showCommitDiff(commitHash)
StartShow(p) ==
    /\ \E commitHash \in DOMAIN objects \cup {UnknownHash} :
         Construct(p, "show", "show_readCommit", [NoLocals EXCEPT !.commitHash = commitHash])
    /\ UNCHANGED << nadd, ncommit >>

\* const commitData = JSON.parse(await this.getCommitData(commitHash)); the
\* not-found return; the heading; the for loop is entered when there are files
ShowReadCommit(p) ==
    /\ pc[p] = "show_readCommit"
    /\ LET text == getCommitData(loc[p].commitHash)
           commitData == ParseCommit(text)
       IN  CASE commitData.kind = "SyntaxError" ->
                  /\ Throw(p, "SyntaxError")
                  /\ ConsoleLog(p, CommitDataLog(loc[p].commitHash))
             [] commitData.kind = "null" ->
                  /\ pc' = [pc EXCEPT ![p] = "done"]
                  /\ ConsoleLog(p, CommitDataLog(loc[p].commitHash)
                                   \o << Line("Commit not found", EmptyString, EmptyString) >>)
                  /\ UNCHANGED loc
             [] commitData.kind = "object" ->
                  /\ pc' = [pc EXCEPT ![p] =
                                IF commitData.files = << >> THEN "done" ELSE "show_file"]
                  /\ loc' = [loc EXCEPT ![p].commitData = text, ![p].i = 1]
                  /\ ConsoleLog(p, << Line("Changes in the last commit are: ",
                                           EmptyString, EmptyString) >>)
    /\ UNCHANGED << repo, cmd, ipc, pre, history, staged, headWriter, nadd, ncommit >>

\* one turn of the for loop over commitData.files (its reads taken together)
ShowFile(p) ==
    /\ pc[p] = "show_file"
    /\ LET commitData == ParseCommit(loc[p].commitData)
           file == commitData.files[loc[p].i]
           fileContent == getFileContent(file.hash)
           fileLines == << Line("File", << file.path >>, EmptyString) >>
           parentCommitData == ParseCommit(getCommitData(commitData.parent))
           next == /\ pc' = [pc EXCEPT ![p] =
                               IF loc[p].i = Len(commitData.files) THEN "done" ELSE "show_file"]
                   /\ loc' = [loc EXCEPT ![p].i = loc[p].i + 1]
       IN  IF fileContent = Enoent
           THEN Throw(p, "ENOENT") /\ ConsoleLog(p, fileLines)
           ELSE IF ~Truthy(commitData.parent)
           THEN /\ next
                /\ ConsoleLog(p, fileLines \o << Line("content", fileContent, EmptyString),
                                     Line("First commit", EmptyString, EmptyString) >>)
           ELSE IF parentCommitData.kind = "SyntaxError"
           THEN /\ Throw(p, "SyntaxError")
                /\ ConsoleLog(p, fileLines \o << Line("content", fileContent, EmptyString) >>)
           ELSE IF parentCommitData.kind = "null"
           THEN /\ Throw(p, "TypeError")
                /\ ConsoleLog(p, fileLines \o << Line("content", fileContent, EmptyString) >>
                                 \o CommitDataLog(commitData.parent))
           ELSE LET parentFileContent == getParentFileContent(parentCommitData, file.path)
                IN  IF parentFileContent = Enoent
                    THEN /\ Throw(p, "ENOENT")
                         /\ ConsoleLog(p, fileLines
                                \o << Line("content", fileContent, EmptyString) >>)
                    ELSE /\ next
                         /\ ConsoleLog(p, fileLines
                                \o << Line("content", fileContent, EmptyString),
                                      IF parentFileContent # Undefined
                                      THEN Line("Diff", parentFileContent, fileContent)
                                      ELSE Line("New file in this commit",
                                                EmptyString, EmptyString) >>)
    /\ UNCHANGED << repo, cmd, ipc, pre, history, staged, headWriter, nadd, ncommit >>

\* ------------------------------------------------------------ specification
Step(p) ==
    \/ StartInit(p) \/ InitMkdir(p) \/ InitHead(p) \/ InitIndex(p)
    \/ StartAdd(p) \/ AddReadFile(p) \/ AddWriteObject(p) \/ AddReadIndex(p)
    \/ AddWriteIndex(p)
    \/ StartCommit(p) \/ CommitReadIndex(p) \/ CommitReadHead(p)
    \/ CommitWriteObject(p) \/ CommitWriteHead(p) \/ CommitWriteIndex(p)
    \/ StartLog(p) \/ LogReadHead(p) \/ LogReadCommit(p)
    \/ StartShow(p) \/ ShowReadCommit(p) \/ ShowFile(p)

\* one invocation at a time (a single writer)
Next == \E p \in Writers : Step(p)

Spec == Init /\ [][Next]_vars

\* ------------------------------------------- interruption and concurrency
\* the process of an invocation is interrupted between two awaited steps:
\* neither of its chains goes on and what it held in memory is gone
Kill(p) ==
    /\ ~Finished(p)
    /\ pc' = [pc EXCEPT ![p] = "failed"]
    /\ ipc' = [ipc EXCEPT ![p] = "done"]
    /\ loc' = [loc EXCEPT ![p] = [NoLocals EXCEPT !.error = "killed"]]
    /\ UNCHANGED << repo, cmd, out, pre, history, staged, headWriter, nadd, ncommit >>

\* the steps of the invocations that write: init, add and commit
WriterStep(p) ==
    \/ StartInit(p) \/ InitMkdir(p) \/ InitHead(p) \/ InitIndex(p)
    \/ StartAdd(p) \/ AddReadFile(p) \/ AddWriteObject(p) \/ AddReadIndex(p)
    \/ AddWriteIndex(p)
    \/ StartCommit(p) \/ CommitReadIndex(p) \/ CommitReadHead(p)
    \/ CommitWriteObject(p) \/ CommitWriteHead(p) \/ CommitWriteIndex(p)

\* one invocation at a time, which may be interrupted at any step
NextCrash ==
    \E p \in Writers : ((Finished(p) => nadd + ncommit < MaxOps) /\ WriterStep(p)) \/ Kill(p)

SpecCrash == Init /\ [][NextCrash]_vars

\* the repository as `duck init` leaves a new directory, no invocation running
InitConc ==
    /\ objectsDir = TRUE
    /\ head = File(EmptyString)
    /\ index = File(StringifyFiles(<< >>))
    /\ objects = NoObjects
    /\ cmd = [p \in Procs |-> "none"]
    /\ ipc = [p \in Procs |-> "done"]
    /\ pc = [p \in Procs |-> "done"]
    /\ loc = [p \in Procs |-> NoLocals]
    /\ out = [p \in Procs |-> << >>]
    /\ pre = [p \in Procs |-> [objectsDir |-> FALSE, head |-> NoFile, index |-> NoFile,
                               objects |-> NoObjects]]
    /\ history = << >>
    /\ staged = {}
    /\ headWriter = 0
    /\ nadd = 0
    /\ ncommit = 0

\* the steps of the invocations that race in an initialized repository:
\* process p runs `duck add` on its own readable path and `duck commit`, each
\* with the constructor's init chain, which finds HEAD present
ConcStep(p) ==
    \/ InitMkdir(p) \/ InitHead(p)
    \/ (StartAdd(p) /\ loc'[p].fileToBeAdded = p /\ loc'[p].working = 1)
    \/ AddReadFile(p) \/ AddWriteObject(p) \/ AddReadIndex(p) \/ AddWriteIndex(p)
    \/ StartCommit(p) \/ CommitReadIndex(p) \/ CommitReadHead(p)
    \/ CommitWriteObject(p) \/ CommitWriteHead(p) \/ CommitWriteIndex(p)

\* two invocations against the same repository, their steps interleaved; a
\* new one starts while fewer than MaxOps adds and commits have written
NextConc ==
    \E p \in Procs : (Finished(p) => nadd + ncommit < MaxOps) /\ ConcStep(p)

SpecConc == InitConc /\ [][NextConc]_vars

\* --------------------------------------------------------------- fairness
\* the steps of log's chain
LogStep(p) == LogReadHead(p) \/ LogReadCommit(p)

\* one invocation at a time of init, add, commit and log; an init, add or
\* commit starts while fewer than MaxOps adds and commits have written, and
\* the adds are of a readable file holding one text
NextLog ==
    \E p \in Writers :
        \/ /\ Finished(p) => nadd + ncommit < MaxOps
           /\ WriterStep(p)
           /\ cmd'[p] = "add" => loc'[p].working = 1
        \/ StartLog(p) \/ LogStep(p)

\* a read that log awaits completes, and the event loop then runs what
\* follows the await
SpecLog == Init /\ [][NextLog]_vars /\ \A p \in Writers : WF_vars(LogStep(p))

\* ------------------------------------------------------------- corruption
\* the file of a commit record is removed from .duck/objects from outside
\* the program, while no invocation runs
RemoveObject ==
    /\ \A p \in Procs : Finished(p)
    /\ \E h \in {k \in DOMAIN objects : ParseCommit(objects[k]).kind = "object"} :
          objects' = [k \in DOMAIN objects \ {h} |-> objects[k]]
    /\ UNCHANGED << objectsDir, head, index, cmd, ipc, pc, loc, out, pre, history, staged,
                    headWriter, nadd, ncommit >>

\* one invocation at a time of any command, adds being of a readable file
\* holding one text, and between invocations a record may be removed
NextCorrupt ==
    \/ \E p \in Writers :
          \/ /\ Finished(p) => nadd + ncommit < MaxOps
             /\ WriterStep(p)
             /\ cmd'[p] = "add" => loc'[p].working = 1
          \/ StartLog(p) \/ LogStep(p)
          \/ StartShow(p) \/ ShowReadCommit(p) \/ ShowFile(p)
    \/ RemoveObject

SpecCorrupt == Init /\ [][NextCorrupt]_vars

\* --------------------------------------------------------------- properties
\* the full repository layout exists in the repository r
Initialized(r) == r.objectsDir /\ r.head.exists /\ r.index.exists

\* nothing of the repository exists in r
Absent(r) == ~r.objectsDir /\ ~r.head.exists /\ ~r.index.exists

\* the entries staged in the repository r
Staged(r) == ParseIndex(r.index.data).files

\* the record stored under hash h
Record(h) == ParseCommit(objects[h])

\* the hashes log printed, in the order printed
RECURSIVE Visited(_)
Visited(lines) ==
    IF lines = << >> THEN << >>
    ELSE IF Head(lines).line = "Commit"
         THEN << Head(lines).a >> \o Visited(Tail(lines))
         ELSE Visited(Tail(lines))

\* the record at which the walk from h along parent links ends, in at most n steps
RECURSIVE ChainEnd(_, _)
ChainEnd(h, n) ==
    IF n > 0 /\ Truthy(Record(h).parent) /\ Record(h).parent \in DOMAIN objects
    THEN ChainEnd(Record(h).parent, n - 1)
    ELSE h

\* C1: when a commit of a single writer has run to completion in an
\* initialized repository, the index is the empty sequence, HEAD is the hash
\* of the one record the commit stored, that record's files are the entries
\* staged when the commit started, in the same order, and its parent is the
\* content HEAD had when the commit started.
C1_CommitPostcondition ==
    \A p \in Procs :
        (cmd[p] = "commit" /\ pc[p] = "done" /\ Initialized(pre[p])) =>
            /\ index.exists /\ ParseIndex(index.data).kind = "array"
            /\ Staged(Repo) = << >>
            /\ head.exists /\ head.data \in DOMAIN objects
            /\ head.data = hashObject(objects[head.data])
            /\ \A h \in DOMAIN objects : h \in DOMAIN pre[p].objects \/ h = head.data
            /\ Record(head.data).kind = "object"
            /\ Record(head.data).files = Staged(pre[p])
            /\ Record(head.data).parent = pre[p].head.data

\* a second commit, of two staged entries, has completed
C1_Witness ==
    /\ cmd[1] = "commit" /\ pc[1] = "done" /\ Initialized(pre[1])
    /\ Len(Staged(pre[1])) = 2
    /\ Staged(pre[1])[1] # Staged(pre[1])[2]
    /\ Truthy(pre[1].head.data)

\* C2: a log never fails, and a completed log has printed exactly the commits
\* that ran to completion, the most recent first, each one's parent being the
\* hash printed next.
C2_LogNewestFirst ==
    \A p \in Procs :
        cmd[p] = "log" =>
            /\ pc[p] # "failed"
            /\ pc[p] = "done" =>
                 LET v == Visited(out[p])
                 IN  /\ Len(v) = Len(history)
                     /\ \A i \in 1..Len(v) : v[i] = history[Len(history) + 1 - i]
                     /\ \A i \in 1..(Len(v) - 1) :
                            /\ v[i] \in DOMAIN objects
                            /\ Record(v[i]).parent = v[i + 1]

\* a log has completed after as many commits as the bound allows
C2_Witness ==
    /\ cmd[1] = "log" /\ pc[1] = "done"
    /\ Len(history) = MaxCommits
    /\ Len(Visited(out[1])) = MaxCommits

\* C3: the first commit is stored with parent null, so that the chain walked
\* from HEAD along parent links ends at a record whose parent is null.
C3_ChainEndsAtNull ==
    /\ history # << >> => Record(history[1]).parent = Null
    /\ (Truthy(getCurrentHead) /\ head.data \in DOMAIN objects) =>
           Record(ChainEnd(head.data, MaxCommits)).parent = Null

\* C4: an init that finds neither HEAD nor index ends with an empty HEAD and
\* an empty index; an init never changes a stored object; and an init that
\* finds HEAD present, whatever is staged or committed, changes nothing at
\* any of its steps.
C4_InitIdempotent ==
    \A p \in Procs :
        cmd[p] = "init" =>
            /\ (~pre[p].head.exists /\ ~pre[p].index.exists /\ ipc[p] = "done") =>
                   /\ head = File(EmptyString)
                   /\ index.exists
                   /\ ParseIndex(index.data) = [kind |-> "array", files |-> << >>]
            /\ objects = pre[p].objects
            /\ pre[p].head.exists => Repo = pre[p]

\* an init has completed in a repository with a commit and a staged entry
C4_Witness ==
    /\ cmd[1] = "init" /\ ipc[1] = "done" /\ Initialized(pre[1])
    /\ Truthy(pre[1].head.data)
    /\ Len(Staged(pre[1])) >= 1

\* C5: when the init chain of an invocation has run to completion, the
\* objects directory, the HEAD file and the index file exist.
C5_LayoutAfterInit ==
    \A p \in Procs :
        (cmd[p] # "none" /\ ipc[p] = "done") => Initialized(Repo)

\* C6: a commit in an initialized repository whose index is empty does not
\* fail, and once completed it has stored one record whose files are the
\* empty sequence, HEAD is that record's hash and the index is still empty.
C6_EmptyCommit ==
    \A p \in Procs :
        (cmd[p] = "commit" /\ Initialized(pre[p]) /\ Staged(pre[p]) = << >>) =>
            /\ pc[p] # "failed"
            /\ pc[p] = "done" =>
                 /\ head.exists /\ head.data \in DOMAIN objects
                 /\ head.data \notin DOMAIN pre[p].objects
                 /\ head.data = hashObject(objects[head.data])
                 /\ Record(head.data).kind = "object"
                 /\ Record(head.data).files = << >>
                 /\ index = File(StringifyFiles(<< >>))
                 /\ Staged(Repo) = << >>

\* a commit of an empty index has completed
C6_Witness ==
    /\ cmd[1] = "commit" /\ pc[1] = "done"
    /\ Initialized(pre[1]) /\ Staged(pre[1]) = << >>
    /\ head.data \in DOMAIN objects

\* C7: once an add of a path that cannot be read has made its read, it has
\* failed, and in an initialized repository the repository is as the
\* invocation found it: no object written, no entry appended, HEAD untouched.
C7_AddUnreadable ==
    \A p \in Procs :
        (cmd[p] = "add" /\ loc[p].working = 0) =>
            /\ pc[p] \in {"add_readFile", "failed"}
            /\ Initialized(pre[p]) => Repo = pre[p]

\* an add of an unreadable path has failed in a repository with a commit
\* and a staged entry
C7_Witness ==
    /\ cmd[1] = "add" /\ loc[1].working = 0 /\ pc[1] = "failed"
    /\ Initialized(pre[1])
    /\ Truthy(pre[1].head.data)
    /\ Len(Staged(pre[1])) >= 1

\* some line of lines has the text `text`
Printed(lines, text) == \E k \in 1..Len(lines) : lines[k].line = text

\* C8: a show of a hash that has no object, once past its read, has returned
\* normally after printing "Commit not found"; no object has changed, in an
\* initialized repository nothing at all has changed, and no step of show
\* changes the repository in any state.
C8_ShowUnknownInv ==
    \A p \in Procs :
        (cmd[p] = "show" /\ loc[p].commitHash \notin DOMAIN pre[p].objects
                         /\ pc[p] # "show_readCommit") =>
            /\ pc[p] = "done"
            /\ loc[p].error = "none"
            /\ Printed(out[p], "Commit not found")
            /\ objects = pre[p].objects
            /\ Initialized(pre[p]) => Repo = pre[p]

C8_ShowUnknown ==
    /\ []C8_ShowUnknownInv
    /\ [][\A p \in Procs : (ShowReadCommit(p) \/ ShowFile(p)) => UNCHANGED repo]_vars

\* a show of an unknown hash has returned in a repository that holds objects
C8_Witness ==
    /\ cmd[1] = "show" /\ loc[1].commitHash = UnknownHash /\ pc[1] = "done"
    /\ Printed(out[1], "Commit not found")
    /\ Truthy(pre[1].head.data)

\* C9: a log invocation in a directory with no repository, or in an
\* initialized repository whose HEAD is empty, does not fail and prints
\* nothing.
C9_LogSilent ==
    \A p \in Procs :
        (cmd[p] = "log" /\ (Absent(pre[p])
                            \/ (Initialized(pre[p]) /\ pre[p].head.data = EmptyString))) =>
            /\ pc[p] # "failed"
            /\ out[p] = << >>

\* the classification lines show printed, in the order printed
RECURSIVE Classified(_)
Classified(lines) ==
    IF lines = << >> THEN << >>
    ELSE IF Head(lines).line \in {"First commit", "New file in this commit", "Diff"}
         THEN << Head(lines) >> \o Classified(Tail(lines))
         ELSE Classified(Tail(lines))

\* the paths of the "File" lines show printed, in the order printed
RECURSIVE FilesShown(_)
FilesShown(lines) ==
    IF lines = << >> THEN << >>
    ELSE IF Head(lines).line = "File"
         THEN Head(lines).a \o FilesShown(Tail(lines))
         ELSE FilesShown(Tail(lines))

\* the least element of a non-empty set of numbers
Least(S) == CHOOSE k \in S : \A j \in S : k <= j

\* C10: show of a commit handles the commit's files in their stored order
\* and, once returned, has classified each of them: "First commit" when the
\* commit has no parent, "New file in this commit" when no entry of the
\* parent's files has the path, and otherwise a diff of the blob of the first
\* parent entry of that path against the file's blob.
C10_ShowClassifies ==
    \A p \in Procs :
        (cmd[p] = "show" /\ loc[p].commitHash \in DOMAIN objects
                         /\ Record(loc[p].commitHash).kind = "object") =>
            LET commit == Record(loc[p].commitHash)
                class == Classified(out[p])
                shown == FilesShown(out[p])
            IN  /\ pc[p] # "failed"
                /\ Len(class) <= Len(commit.files)
                /\ Len(shown) = Len(class)
                /\ pc[p] = "done" => Len(class) = Len(commit.files)
                /\ \A i \in 1..Len(class) :
                     LET file == commit.files[i]
                     IN  /\ shown[i] = file.path
                         /\ IF ~Truthy(commit.parent)
                            THEN class[i].line = "First commit"
                            ELSE LET parentFiles == Record(commit.parent).files
                                     same == {k \in 1..Len(parentFiles) :
                                                 parentFiles[k].path = file.path}
                                 IN  IF same = {}
                                     THEN class[i].line = "New file in this commit"
                                     ELSE /\ class[i].line = "Diff"
                                          /\ class[i].a = objects[parentFiles[Least(same)].hash]
                                          /\ class[i].b = objects[file.hash]

\* a show has returned for a commit one of whose paths its parent holds
\* twice, with different blobs
C10_Witness ==
    /\ cmd[1] = "show" /\ pc[1] = "done"
    /\ loc[1].commitHash \in DOMAIN objects
    /\ Record(loc[1].commitHash).kind = "object"
    /\ LET commit == Record(loc[1].commitHash)
       IN  /\ Truthy(commit.parent)
           /\ Len(commit.files) >= 1
           /\ Len(Record(commit.parent).files) = 2
           /\ Record(commit.parent).files[1].path = Record(commit.parent).files[2].path
           /\ Record(commit.parent).files[1].hash # Record(commit.parent).files[2].hash
           /\ commit.files[1].path = Record(commit.parent).files[1].path
           /\ Classified(out[1])[1] =
                 Line("Diff", objects[Record(commit.parent).files[1].hash],
                      objects[commit.files[1].hash])

\* the entries of the sequence files staged for the path
EntriesOf(files, path) == SelectSeq(files, LAMBDA e : e.path = path)

\* C11: a completed add leaves the index one entry longer than it found it:
\* the entries it found, unchanged and in order, followed by the new (path,
\* hash) entry, whether or not the path was staged before; and a completed
\* commit's record lists, for every path, as many entries as were staged for
\* it, in the order staged.
C11_AddAppends ==
    \A p \in Procs :
        /\ (cmd[p] = "add" /\ pc[p] = "done") =>
              /\ index.exists /\ ParseIndex(index.data).kind = "array"
              /\ Len(Staged(Repo)) = Len(Staged(pre[p])) + 1
              /\ Staged(Repo) =
                     Append(Staged(pre[p]),
                            [path |-> loc[p].fileToBeAdded,
                             hash |-> hashObject(FileText(loc[p].working))])
        /\ (cmd[p] = "commit" /\ pc[p] = "done" /\ Initialized(pre[p])) =>
              \A path \in Paths :
                  EntriesOf(Record(loc[p].commitHash).files, path) =
                      EntriesOf(Staged(pre[p]), path)

\* a commit has completed whose record lists the same path three times, the
\* path having been added three times since the commit before
C11_Witness ==
    /\ cmd[1] = "commit" /\ pc[1] = "done" /\ Initialized(pre[1])
    /\ nadd = 3
    /\ Len(Record(loc[1].commitHash).files) = 3
    /\ Len(EntriesOf(Record(loc[1].commitHash).files, 1)) = 3
    /\ Record(loc[1].commitHash).files[1].hash # Record(loc[1].commitHash).files[2].hash

\* C12: in every state each stored object's key is the hash of its content;
\* and a completed add of a text that the store already held when the add
\* started, staged under whatever path, names that object's key in its entry
\* and leaves the store as it found it.
C12_ContentAddressed ==
    /\ \A h \in DOMAIN objects : h = hashObject(objects[h])
    /\ \A p \in Procs :
          (cmd[p] = "add" /\ pc[p] = "done") =>
              /\ loc[p].fileHash \in DOMAIN objects
              /\ objects[loc[p].fileHash] = FileText(loc[p].working)
              /\ \A h \in DOMAIN pre[p].objects :
                     pre[p].objects[h] = FileText(loc[p].working) =>
                         /\ Staged(Repo)[Len(Staged(Repo))].hash = h
                         /\ objects = pre[p].objects

\* an add has completed of a text already staged under the other path
C12_Witness ==
    /\ cmd[1] = "add" /\ pc[1] = "done"
    /\ Len(Staged(Repo)) = 2
    /\ Staged(Repo)[1].path # Staged(Repo)[2].path
    /\ Staged(Repo)[1].hash = Staged(Repo)[2].hash
    /\ objects = pre[1].objects

\* C19: no step of init, add, commit, log or show deletes a stored object or
\* changes its content: every object of the store is in the store after the
\* step, under the same key and with the same content.
C19_ObjectsWriteOnce ==
    [][\A h \in DOMAIN objects : h \in DOMAIN objects' /\ objects'[h] = objects[h]]_vars

\* an add has completed that wrote, next to a blob and a commit record, a
\* blob that was already stored, and the store is as it was
C19_Witness ==
    /\ cmd[1] = "add" /\ pc[1] = "done"
    /\ loc[1].fileHash \in DOMAIN pre[1].objects
    /\ ncommit > 0
    /\ Cardinality(DOMAIN pre[1].objects) >= 3
    /\ objects = pre[1].objects

\* the entries of the sequence files, as a set
Entries(files) == {files[i] : i \in DOMAIN files}

\* the commits met on the walk from hash h along parent links, in at most n steps
RECURSIVE Reachable(_, _)
Reachable(h, n) ==
    IF n = 0 \/ ~Truthy(h) \/ h \notin DOMAIN objects THEN {}
    ELSE {h} \cup Reachable(Record(h).parent, n - 1)

\* the entries in the files of the commits reachable from HEAD
Committed ==
    UNION {Entries(Record(h).files) :
               h \in Reachable(getCurrentHead, Cardinality(DOMAIN objects))}

\* C13: with a single writer, in every state, every entry staged by a
\* completed add is in the index or in the files of a commit reachable from
\* HEAD along parent links; from the commit's read of the index up to its
\* write that clears it the index holds what the commit found; and once the
\* commit has completed the index is empty and the entries it found are in
\* the record HEAD names.
C13_StagedNotLost ==
    /\ LET rest == staged \ Entries(Staged(Repo))
       IN  rest = {} \/ rest \subseteq Committed
    /\ \A p \in Procs :
          (cmd[p] = "commit" /\ Initialized(pre[p])) =>
              /\ pc[p] \in {"commit_readIndex", "commit_readHead", "commit_writeObject",
                            "commit_writeHead", "commit_writeIndex"} =>
                     index = pre[p].index
              /\ pc[p] = "done" =>
                     /\ Staged(Repo) = << >>
                     /\ Entries(Staged(pre[p])) \subseteq Entries(Record(head.data).files)

\* a second commit has written HEAD and not yet cleared the index: an entry
\* is both in the index and in the new record, and an older one is reachable
\* only through the parent link
C13_Witness ==
    /\ cmd[1] = "commit" /\ pc[1] = "commit_writeIndex"
    /\ Len(history) = 1
    /\ Staged(Repo) # << >>
    /\ Entries(Staged(Repo)) \subseteq Entries(Record(head.data).files)
    /\ \E e \in staged :
          /\ e \notin Entries(Staged(Repo))
          /\ e \notin Entries(Record(head.data).files)
          /\ e \in Entries(Record(Record(head.data).parent).files)

\* the records a commit started in the repository r can store
RecordsOf(r) ==
    {CommitData(timeStamp, message, Staged(r), r.head.data) :
         timeStamp \in Times, message \in Messages}

\* C14: in every state, also after a commit was interrupted after any of
\* its writes, HEAD is empty or is the hash of a commit record that is in the
\* store; and a commit started in an initialized repository, interrupted or
\* not, leaves one of four states: nothing written; the record stored and
\* HEAD and index as found; HEAD naming the record and the index as found;
\* HEAD naming the record and the index empty.
C14_HeadNamesRecord ==
    /\ head.exists =>
          \/ head.data = EmptyString
          \/ /\ head.data \in DOMAIN objects
             /\ Record(head.data).kind = "object"
    /\ \A p \in Procs :
          (cmd[p] = "commit" /\ Initialized(pre[p])) =>
              \/ Repo = pre[p]
              \/ \E commitData \in RecordsOf(pre[p]) :
                    /\ objectsDir
                    /\ objects = PutObject(pre[p].objects, hashObject(commitData), commitData)
                    /\ \/ head = pre[p].head /\ index = pre[p].index
                       \/ head = File(hashObject(commitData)) /\ index = pre[p].index
                       \/ head = File(hashObject(commitData)) /\ index = File(StringifyFiles(<< >>))

\* a commit of a staged entry was interrupted after its write of HEAD: HEAD
\* names the new record and the index still holds the entry
C14_Witness ==
    /\ cmd[1] = "commit" /\ pc[1] = "failed" /\ loc[1].error = "killed"
    /\ Initialized(pre[1])
    /\ head # pre[1].head
    /\ head.data \in DOMAIN objects
    /\ index = pre[1].index
    /\ Staged(Repo) # << >>

\* the blobs add can store
Blobs == {FileText(c) : c \in Contents}

\* the hashes named by the index and by the files of the stored commit records
Named ==
    {e.hash : e \in Entries(Staged(Repo))}
        \cup UNION {{e.hash : e \in Entries(Record(h).files)} :
                       h \in {k \in DOMAIN objects : Record(k).kind = "object"}}

\* C15: in every state that init, add and commit of a single writer reach,
\* also when an add or a commit was interrupted between two steps, every
\* hash named by an index entry or in the files of a stored commit record is
\* the key of a blob in the store.
C15_NoMissingBlob ==
    \A h \in Named : h \in DOMAIN objects /\ objects[h] \in Blobs

\* an add was interrupted after it stored its blob, which nothing names;
\* then a commit of a staged entry was interrupted after it stored its record
C15_Witness ==
    /\ cmd[1] = "commit" /\ loc[1].error = "killed"
    /\ \E h \in DOMAIN objects : Record(h).kind = "object" /\ Record(h).files # << >>
    /\ \E h \in DOMAIN objects : objects[h] \in Blobs /\ h \notin Named
    /\ Named # {}

\* the first step of the chain of a command
FirstStep(command) ==
    CASE command = "add" -> "add_readFile"
      [] command = "commit" -> "commit_readIndex"
      [] command = "log" -> "log_readHead"
      [] command = "show" -> "show_readCommit"

\* C16: the steps of init started by the constructor (create the objects
\* directory, create HEAD, create index) have all completed before the first
\* read or write of the invoked add, commit, log or show: once the command's
\* chain is past its first step, the init chain has finished.
C16_InitBeforeCommand ==
    \A p \in Procs :
        (cmd[p] \in {"add", "commit", "log", "show"} /\ pc[p] # FirstStep(cmd[p])) =>
            ipc[p] = "done"

\* C20: a log or a show leaves HEAD, the index and the object store, and
\* whether they exist, as the invocation found them, also in a directory
\* that holds no repository.
C20_LogShowReadOnly ==
    \A p \in Procs :
        cmd[p] \in {"log", "show"} =>
            /\ head = pre[p].head
            /\ index = pre[p].index
            /\ objects = pre[p].objects

\* the entry the add of process p stages
EntryOf(p) == [path |-> loc[p].fileToBeAdded, hash |-> loc[p].fileHash]

\* the adds of both processes have completed, and nothing else has written
BothAdded ==
    /\ \A p \in Procs : cmd[p] = "add" /\ pc[p] = "done"
    /\ nadd = 2 /\ ncommit = 0

\* C17: when two adds have run concurrently and both completed, the index
\* is the array that one of them, w, wrote from its own read: it ends with
\* w's entry, and it holds the other add's entry only when w read the index
\* after the other's write; when w read before it, the index holds w's entry
\* alone.
C17_ConcurrentAdds ==
    BothAdded =>
        \E w \in Procs :
            /\ Staged(Repo) = loc[w].index
            /\ \/ Staged(Repo) = << EntryOf(w) >>
               \/ \E o \in Procs \ {w} : Staged(Repo) = << EntryOf(o), EntryOf(w) >>

\* two adds started in the same initialized repository with an empty index
\* have both completed and printed their success line, and the index holds
\* one entry
C17_Witness ==
    /\ BothAdded
    /\ \A p \in Procs :
          /\ Initialized(pre[p]) /\ Staged(pre[p]) = << >>
          /\ Printed(out[p], "Added")
    /\ EntryOf(1) # EntryOf(2)
    /\ Len(Staged(Repo)) = 1

\* the hashes of the stored commit records
Records == {h \in DOMAIN objects : Record(h).kind = "object"}

\* the hashes of the commits reachable from HEAD along parent links
FromHead == Reachable(getCurrentHead, Cardinality(DOMAIN objects))

\* C18: with two processes interleaved, HEAD is empty as long as no commit
\* has written it, and otherwise, while the commit that wrote HEAD last is
\* past that write, HEAD is the hash that commit wrote, whatever the other
\* wrote before; and when both commits have completed with different records
\* of the same parent, the record of the one that wrote HEAD first is stored
\* and is not reachable from HEAD along parent links.
C18_LastHeadWriterWins ==
    /\ headWriter = 0 => head = File(EmptyString)
    /\ \A p \in Procs :
          (headWriter = p /\ cmd[p] = "commit" /\ pc[p] \in {"commit_writeIndex", "done"}) =>
              /\ head = File(loc[p].commitHash)
              /\ \A q \in Procs \ {p} :
                     (/\ cmd[q] = "commit" /\ pc[q] = "done" /\ pc[p] = "done"
                      /\ loc[q].parentCommit = loc[p].parentCommit
                      /\ loc[q].commitHash # loc[p].commitHash) =>
                         /\ loc[q].commitHash \in Records
                         /\ loc[q].commitHash \notin FromHead

\* an add and a commit that ran concurrently have both completed: two stored
\* records have the same parent, HEAD names the one this commit stored and
\* the other is not reachable from HEAD; and the entry of the add is neither
\* in the index nor in any stored record
C18_Witness ==
    \E p \in Procs, q \in Procs :
        /\ cmd[p] = "add" /\ pc[p] = "done" /\ ipc[p] = "done"
        /\ Printed(out[p], "Added")
        /\ cmd[q] = "commit" /\ pc[q] = "done" /\ ipc[q] = "done"
        /\ EntryOf(p) \notin Entries(loc[q].index)
        /\ EntryOf(p) \notin Entries(Staged(Repo))
        /\ \A h \in Records : EntryOf(p) \notin Entries(Record(h).files)
        /\ head.data = loc[q].commitHash
        /\ \E a \in Records :
              /\ a # head.data
              /\ Record(a).parent = Record(head.data).parent
              /\ a \notin FromHead

\* the content of HEAD and the entries of the index; a file that does not
\* exist has no content and no entries
HeadContent == IF head.exists THEN head.data ELSE EmptyString
IndexEntries == IF index.exists THEN Staged(Repo) ELSE << >>

\* the content of HEAD in the repository r
HeadContentOf(r) == IF r.head.exists THEN r.head.data ELSE EmptyString

\* C21: the content of HEAD is changed only by commit's write of HEAD, and
\* the index only by add's write, which leaves the entries it held followed
\* by the add's entry, and by commit's last write, which leaves none; an add
\* invocation, failed or not, has the content of HEAD it found. (init, also
\* when the constructor runs it for an add, creates HEAD where it does not
\* exist, without content, and the index where it does not exist, without
\* entries.)
C21_HeadIndexFrame ==
    [][/\ head' # head =>
             \/ HeadContent' = HeadContent
             \/ \E p \in Procs :
                    /\ cmd[p] = "commit" /\ pc[p] = "commit_writeHead"
                    /\ pc'[p] = "commit_writeIndex"
                    /\ HeadContent' = loc[p].commitHash
       /\ index' # index =>
             \/ ~index.exists /\ index' = File(StringifyFiles(<< >>))
             \/ \E p \in Procs :
                    \/ /\ cmd[p] = "add" /\ pc[p] = "add_writeIndex" /\ pc'[p] = "done"
                       /\ index' = File(StringifyFiles(Append(IndexEntries, EntryOf(p))))
                    \/ /\ cmd[p] = "commit" /\ pc[p] = "commit_writeIndex"
                       /\ pc'[p] = "done"
                       /\ index' = File(StringifyFiles(<< >>))
       /\ \A p \in Procs :
             cmd'[p] = "add" => HeadContent' = HeadContentOf(pre'[p])]_vars

\* an add of an unreadable path has failed after its init chain ran to its
\* end, in a repository with a commit and a staged entry
C21_Witness ==
    /\ cmd[1] = "add" /\ pc[1] = "failed" /\ loc[1].error = "ENOENT"
    /\ loc[1].working = 0
    /\ Truthy(HeadContent)
    /\ IndexEntries # << >>
    /\ Printed(out[1], "Already initialised the .duck folder")

\* the hashes met on the walk from hash h along parent links, in the order
\* met, in at most n steps
RECURSIVE Walk(_, _)
Walk(h, n) ==
    IF n = 0 \/ ~Truthy(h) \/ h \notin DOMAIN objects THEN << >>
    ELSE << h >> \o Walk(Record(h).parent, n - 1)

\* the walk from HEAD, given one step more than there are objects
HeadWalk == Walk(getCurrentHead, Cardinality(DOMAIN objects) + 1)

\* C22: in every state that init, add and commit reach, the walk from HEAD
\* along parent links meets no commit twice and ends, after as many commits
\* as have completed, at the first commit, whose parent is falsy; a log never
\* fails; and a log that has started runs to completion, having visited the
\* commits of the walk and stopped after the first commit.
C22_ChainInv ==
    /\ Len(HeadWalk) <= Cardinality(DOMAIN objects)
    /\ \A i \in 1..Len(HeadWalk), j \in 1..Len(HeadWalk) :
          HeadWalk[i] = HeadWalk[j] => i = j
    /\ (\A p \in Procs : pc[p] # "commit_writeIndex") =>
          /\ Len(HeadWalk) = Len(history)
          /\ HeadWalk # << >> =>
                /\ HeadWalk[Len(HeadWalk)] = history[1]
                /\ ~Truthy(Record(HeadWalk[Len(HeadWalk)]).parent)
    /\ \A p \in Procs :
          cmd[p] = "log" =>
              /\ pc[p] # "failed"
              /\ pc[p] = "done" => Visited(out[p]) = HeadWalk

C22_LogTerminates ==
    /\ []C22_ChainInv
    /\ \A p \in Writers :
          (cmd[p] = "log" /\ pc[p] = "log_readHead") ~> (cmd[p] = "log" /\ pc[p] = "done")

\* a log has completed that walked two commits and stopped after the first
C22_Witness ==
    /\ cmd[1] = "log" /\ pc[1] = "done"
    /\ Len(Visited(out[1])) = 2
    /\ Visited(out[1])[2] = history[1]
    /\ Record(history[1]).files # << >>

\* the hash names no object of the store
Dangling(h) == Truthy(h) /\ h \notin DOMAIN objects

\* the hash at which the walk from HEAD ends: the content of HEAD when the
\* walk meets no commit, else the parent of the last commit met
WalkEnd ==
    IF HeadWalk = << >> THEN getCurrentHead
    ELSE Record(HeadWalk[Len(HeadWalk)]).parent

\* C23: with the store as the invocation found it, a log of a chain that
\* ends at a hash without object fails with an error and does not complete,
\* and a log fails only then; and a show of a stored commit whose parent is a
\* hash without object fails with an error: it does not complete, and it
\* reports no file as new.
C23_DanglingFails ==
    \A p \in Procs :
        /\ (cmd[p] = "log" /\ objects = pre[p].objects) =>
              /\ pc[p] = "done" => ~Dangling(WalkEnd)
              /\ pc[p] = "failed" => Dangling(WalkEnd) /\ loc[p].error = "ENOENT"
        /\ (/\ cmd[p] = "show" /\ objects = pre[p].objects
            /\ loc[p].commitHash \in DOMAIN objects
            /\ Record(loc[p].commitHash).kind = "object"
            /\ Dangling(Record(loc[p].commitHash).parent)) =>
              /\ pc[p] # "done"
              /\ ~Printed(out[p], "New file in this commit")

====
